---- MODULE Spec2Model ----
(***************************************************************************)
(* State-machine model of torchrl/envs/libs/smac.py: the SMAC (StarCraft   *)
(* Multi-Agent Challenge) environment wrappers SC2Wrapper and SC2Env.      *)
(*                                                                         *)
(* The module is imported, one wrapper is constructed, and the caller then *)
(* issues reset(), step(), rand_step-style sampled actions and set_seed(). *)
(* The external StarCraft2Env is a nondeterministic environment: agents    *)
(* are alive or dead, a dead agent may only play the no-op action 0, an    *)
(* alive agent may play any action but the no-op, and the environment      *)
(* rejects an action that is not currently available.                      *)
(***************************************************************************)
EXTENDS Integers, Sequences, FiniteSets, TLC

\* ---------------------------------------------------------------- bounds
NAgents == 2
ObsShape == 2

Agents == 0 .. (NAgents - 1)

\* The scenario's actions: 0 is the no-op of a dead agent, 1 is stop, 2 is attack.
Actions == {0, 1, 2}
NActions == Cardinality(Actions)

\* The native rewards the environment hands out, in units of half a float32 ulp
\* (0 is representable, 3 is a tie), and the seeds a caller passes.
Rewards == {0, 3}
Seeds == {0, 42}

\* Python's None for an optional integer is the empty tuple, a value <<v>>.
None == <<>>
Some(v) == <<v>>

\* ------------------------------------------------ the external environment
\* smac's registry of scenarios, in registry order.
smac_maps == <<"3m", "8m">>

\* A value that is no StarCraft2Env instance (env=None leaves the key out).
NoEnv == [type |-> "absent", seed |-> 0, initialized |-> FALSE, alive |-> {},
          last_action |-> <<>>, last_ret |-> <<>>]

\* smac.env.StarCraft2Env(map_name, seed=seed): a fresh, un-reset instance.
StarCraft2Env(seed) ==
    [type |-> "StarCraft2Env", seed |-> seed, initialized |-> FALSE, alive |-> {},
     last_action |-> <<>>, last_ret |-> <<>>]

\* env.reset(): a new episode, every agent alive.
EnvReset(e) ==
    [e EXCEPT !.initialized = TRUE, !.alive = Agents,
              !.last_action = <<>>, !.last_ret = <<>>]

\* env.get_avail_actions(): a list of 0/1 rows, one per agent.
get_avail_actions(e) ==
    [i \in Agents |-> [k \in Actions |->
        IF i \in e.alive THEN (IF k = 0 THEN 0 ELSE 1)
                         ELSE (IF k = 0 THEN 1 ELSE 0)]]

\* env.get_env_info(): the metadata the observation spec is derived from.
get_env_info(e) == [n_agents |-> NAgents, obs_shape |-> ObsShape, n_actions |-> NActions]

\* env.get_obs(): one feature vector per agent.
get_obs(e) == [kind |-> "ndarray", shape |-> <<NAgents, ObsShape>>]

\* The environment accepts a native action list iff each agent's action is available.
EnvAccepts(e, action_np) ==
    \A i \in Agents : get_avail_actions(e)[i][action_np[i + 1]] = 1

\* What env.step may answer: agents only die, and with none left the episode is over.
EnvOutcomes(e) ==
    {o \in [reward : Rewards, terminated : BOOLEAN, alive : SUBSET e.alive] :
        (o.alive = {}) => o.terminated}

\* env.step(actions) with outcome (reward, terminated) and the agents left alive.
EnvStep(e, action_np, reward, terminated, alive) ==
    [e EXCEPT !.alive = alive, !.last_action = action_np,
              !.last_ret = <<reward, terminated>>]

\* env.seed()
EnvSeed(e) == e.seed

\* ------------------------------------------------------- tensors and specs
\* Number of elements of a shape; torch.Size([]) is a scalar.
RECURSIVE Numel(_)
Numel(shape) == IF shape = <<>> THEN 1 ELSE Head(shape) * Numel(Tail(shape))

\* torch.zeros(shape, dtype=torch.bool)
Zeros(shape) == [dtype |-> "bool", shape |-> shape, data |-> [j \in 1 .. Numel(shape) |-> FALSE]]

\* Rounding of a double to float32, in units of half a float32 ulp: the even
\* values are representable, an odd one is a tie and rounds to the even mantissa.
Float32(v) == IF v % 2 = 0 THEN v
              ELSE IF ((v - 1) \div 2) % 2 = 0 THEN v - 1 ELSE v + 1

\* torch.tensor(rows, dtype=torch.bool): nonzero is True.
BoolTensor(rows) == [i \in DOMAIN rows |-> [k \in DOMAIN rows[i] |-> rows[i][k] # 0]]

UnboundedContinuousTensorSpec == [kind |-> "UnboundedContinuous", shape |-> <<1>>, dtype |-> "float32"]

NdUnboundedContinuousTensorSpec(size) == [kind |-> "NdUnboundedContinuous", shape |-> size, dtype |-> "float32"]

CustomNdOneHotDiscreteTensorSpec(mask) == [kind |-> "CustomNdOneHotDiscrete", mask |-> mask, dtype |-> "int64"]

\* The one-hot row selecting action k.
OneHot(k) == [m \in Actions |-> IF m = k THEN 1 ELSE 0]

\* spec.rand(): a one-hot draw per agent among the actions its mask allows.
Rand(spec) ==
    {[i \in Agents |-> OneHot(c[i])] :
        c \in {d \in [Agents -> Actions] : \A i \in Agents : spec.mask[i][d[i]]}}

\* argmax over one row: the first index holding the row's largest value.
ArgMax(row) == CHOOSE k \in DOMAIN row :
                  /\ \A m \in DOMAIN row : row[m] <= row[k]
                  /\ \A m \in DOMAIN row : (m < k) => row[m] < row[k]

\* spec.to_numpy(action): the per-agent action indices, as a list.
to_numpy(spec, action) == [j \in 1 .. NAgents |-> ArgMax(action[j - 1])]


\* What the base class makes of a native scalar: a one-element tensor of the dtype asked.
to_tensor_float(value, dtype) ==
    [dtype |-> dtype, shape |-> <<1>>,
     data |-> <<IF dtype = "float32" THEN Float32(value) ELSE value>>]

to_tensor_bool(value) == [dtype |-> "bool", shape |-> <<1>>, data |-> <<value>>]

\* GymLikeEnv.read_obs: the native observation under the key "observation".
read_obs(obs) == [observation |-> [dtype |-> "float32", shape |-> obs.shape]]

\* The wrapper's batch shape (the base class's default, torch.Size([])).
batch_size == <<>>

\* TensorDict(source=..., batch_size=...), and the record before any call returned one.
TensorDict(source, bs) == [fields |-> source, batch_size |-> bs, device |-> "cpu"]
NoTensorDict == [fields |-> [none |-> TRUE], batch_size |-> <<>>, device |-> "none"]
NoSpec == [kind |-> "None"]
NoAction == [i \in Agents |-> [k \in Actions |-> 0]]

\* --------------------------------------------------------------- variables
VARIABLES
    installed,        \* whether the smac library can be imported
    moduleState,      \* "unimported" | "loaded" | "ImportFailed"
    _has_smac,         \* _has_smac
    IMPORT_ERR,       \* IMPORT_ERR, "" while unset
    available_envs,   \* SC2Wrapper.available_envs
    wrapper,          \* "none" | "constructed" | "failed"
    cls,              \* the class constructed: "SC2Wrapper" | "SC2Env"
    kwargs,           \* the constructor's keyword arguments
    env,              \* self._env, the external environment and its state
    reward_spec, input_spec, observation_spec,
    _is_done,          \* self._is_done
    ctorTrace,        \* the calls construction made on the external library
    tensordict_out,   \* the record the last reset()/step() returned
    tdAction,         \* the "action" field of the record last given to step()
    lastCall,         \* the last operation called on the wrapper
    lastErr,          \* the error it raised, "" if none
    prevLifecycle     \* the lifecycle state the last operation was called in

vars == <<installed, moduleState, _has_smac, IMPORT_ERR, available_envs, wrapper, cls,
          kwargs, env, reward_spec, input_spec, observation_spec, _is_done, ctorTrace,
          tensordict_out, tdAction, lastCall, lastErr, prevLifecycle>>

moduleVars == <<installed, moduleState, _has_smac, IMPORT_ERR, available_envs>>
specVars == <<reward_spec, input_spec, observation_spec>>

NoKwargs == [keys |-> {}, env |-> NoEnv, map_name |-> "", seed |-> None]

Init ==
    /\ installed \in BOOLEAN
    /\ moduleState = "unimported"
    /\ _has_smac = FALSE
    /\ IMPORT_ERR = ""
    /\ available_envs = <<>>
    /\ wrapper = "none"
    /\ cls = ""
    /\ kwargs = NoKwargs
    /\ env = NoEnv
    /\ reward_spec = NoSpec
    /\ input_spec = NoSpec
    /\ observation_spec = NoSpec
    /\ _is_done = NoSpec
    /\ ctorTrace = <<>>
    /\ tensordict_out = NoTensorDict
    /\ tdAction = NoAction
    /\ lastCall = ""
    /\ lastErr = ""
    /\ prevLifecycle = ""

\* ------------------------------------------------------- importing the module
\* try: import smac ... except ImportError
TrySmacImport(inst) ==
    IF inst THEN [_has_smac |-> TRUE, IMPORT_ERR |-> "", smac_bound |-> TRUE]
    ELSE [_has_smac |-> FALSE, IMPORT_ERR |-> "No module named 'smac'", smac_bound |-> FALSE]

_get_envs(has) == IF ~has THEN <<>> ELSE smac_maps

\* The class bodies run at import. The parameter annotation smac.env.StarCraft2Env of
\* SC2Wrapper.__init__ is evaluated when the def statement runs: with the name smac
\* unbound it raises NameError and the import of the module fails.
ClassBodyError(smac_bound) == IF smac_bound THEN "" ELSE "NameError"

ImportModule ==
    /\ moduleState = "unimported"
    /\ LET t == TrySmacImport(installed)
           e == ClassBodyError(t.smac_bound)
       IN /\ _has_smac' = t._has_smac
          /\ IMPORT_ERR' = t.IMPORT_ERR
          /\ available_envs' = _get_envs(t._has_smac)
          /\ moduleState' = IF e = "" THEN "loaded" ELSE "ImportFailed"
          /\ lastErr' = e
          /\ lastCall' = "import"
    /\ UNCHANGED <<installed, wrapper, cls, kwargs, env, specVars, _is_done, ctorTrace,
                   tensordict_out, tdAction, prevLifecycle>>

\* ------------------------------------------------------------ construction
\* SC2Wrapper.__init__(env=None, **kwargs): env enters kwargs only if it is not None.
SC2Wrapper_init(envArg) ==
    IF envArg.type # "absent"
    THEN [NoKwargs EXCEPT !.keys = {"env"}, !.env = envArg]
    ELSE NoKwargs

\* _check_kwargs without its isinstance test.
SC2Wrapper_check_kwargs_untyped(kw) == IF "env" \notin kw.keys THEN "TypeError" ELSE ""

\* SC2Wrapper._check_kwargs: "" if the arguments pass, else the error raised.
SC2Wrapper_check_kwargs(kw) ==
    IF "env" \notin kw.keys THEN "TypeError"
    ELSE IF kw.env.type # "StarCraft2Env" THEN "TypeError"
    ELSE ""

\* _build_env without its env.reset().
SC2Wrapper_build_env_unreset(e) ==
    IF e.type # "StarCraft2Env"
    THEN [err |-> "AttributeError", env |-> e, calls |-> <<>>]
    ELSE [err |-> "", env |-> e, calls |-> <<>>]

\* SC2Wrapper._build_env: resets the instance it is given and returns it.
SC2Wrapper_build_env(e) ==
    IF e.type # "StarCraft2Env"
    THEN [err |-> "AttributeError", env |-> e, calls |-> <<>>]
    ELSE [err |-> "", env |-> EnvReset(e), calls |-> <<"reset">>]

\* SC2Env.__init__(map_name, seed=None, **kwargs); the call itself raises TypeError
\* when the required positional argument map_name is not given.
SC2Env_init(mapArg, seedArg) ==
    IF mapArg = <<>>
    THEN [err |-> "TypeError", kw |-> NoKwargs]
    ELSE [err |-> "",
          kw |-> [NoKwargs EXCEPT
                    !.keys = {"map_name"} \cup (IF seedArg # None THEN {"seed"} ELSE {}),
                    !.map_name = mapArg[1],
                    !.seed = seedArg]]

\* SC2Env._check_kwargs
SC2Env_check_kwargs(kw) == IF "map_name" \notin kw.keys THEN "TypeError" ELSE ""

\* SC2Env._build_env: instantiates StarCraft2Env and hands it to SC2Wrapper._build_env.
\* envSeed is the seed the new instance runs with (its own draw when seed is None).
SC2Env_build_env(has, kw, envSeed) ==
    IF ~has
    THEN [err |-> "RuntimeError", env |-> NoEnv, calls |-> <<>>]
    ELSE LET b == SC2Wrapper_build_env(StarCraft2Env(envSeed))
         IN [b EXCEPT !.calls = <<"StarCraft2Env">> \o b.calls]

\* SC2Wrapper._make_reward_spec
_make_reward_spec == UnboundedContinuousTensorSpec

\* CompositeSpec(name=spec)
CompositeAction(spec) == [action |-> spec]
CompositeObservation(spec) == [observation |-> spec]

\* SC2Wrapper._make_input_spec
_make_input_spec(e) ==
    CompositeAction(CustomNdOneHotDiscreteTensorSpec(BoolTensor(get_avail_actions(e))))

\* SC2Wrapper._make_observation_spec
_make_observation_spec(e) ==
    LET info == get_env_info(e)
    IN CompositeObservation(NdUnboundedContinuousTensorSpec(<<info.n_agents, info.obs_shape>>))

\* SC2Wrapper._make_specs. The environment answers the introspection queries only
\* once it has been reset; before that the query raises.
_make_specs(e) ==
    IF ~e.initialized
    THEN [err |-> "EnvError", reward_spec |-> _make_reward_spec, input_spec |-> NoSpec,
          observation_spec |-> NoSpec, calls |-> <<"get_avail_actions">>]
    ELSE [err |-> "", reward_spec |-> _make_reward_spec, input_spec |-> _make_input_spec(e),
          observation_spec |-> _make_observation_spec(e),
          calls |-> <<"get_avail_actions", "get_env_info">>]

\* Method resolution on the class constructed.
_check_kwargs(c, kw) ==
    IF c = "SC2Env" THEN SC2Env_check_kwargs(kw) ELSE SC2Wrapper_check_kwargs(kw)

_build_env(c, has, kw, envSeed) ==
    IF c = "SC2Env" THEN SC2Env_build_env(has, kw, envSeed) ELSE SC2Wrapper_build_env(kw.env)

\* The base class's constructor: _check_kwargs, then self._env = _build_env(**kwargs),
\* then _make_specs(self._env). argErr is the error of the call's own argument binding.
EnvWrapperInit(c, argErr, has, kw, envSeed) ==
    LET failed(e, calls) ==
            [wrapper |-> "failed", err |-> e, env |-> NoEnv, reward_spec |-> NoSpec,
             input_spec |-> NoSpec, observation_spec |-> NoSpec, calls |-> calls]
        chk == _check_kwargs(c, kw)
        b == _build_env(c, has, kw, envSeed)
        s == _make_specs(b.env)
    IN IF argErr # "" THEN failed(argErr, <<>>)
       ELSE IF chk # "" THEN failed(chk, <<>>)
       ELSE IF b.err # "" THEN failed(b.err, b.calls)
       ELSE IF s.err # "" THEN failed(s.err, b.calls \o s.calls)
       ELSE [wrapper |-> "constructed", err |-> "", env |-> b.env,
             reward_spec |-> s.reward_spec, input_spec |-> s.input_spec,
             observation_spec |-> s.observation_spec, calls |-> b.calls \o s.calls]

\* The lifecycle state of section 4.2, read off the wrapper and the last record returned.
Lifecycle ==
    IF wrapper = "none" THEN "Uninitialized"
    ELSE IF wrapper = "failed" THEN "Failed"
    ELSE IF tensordict_out = NoTensorDict THEN "SpecsReady"
    ELSE IF \A j \in DOMAIN tensordict_out.fields.done.data :
                tensordict_out.fields.done.data[j] THEN "Done"
    ELSE "Ready"

Construct(c, argErr, kw, envSeed) ==
    /\ moduleState = "loaded"
    /\ wrapper = "none"
    /\ LET r == EnvWrapperInit(c, argErr, _has_smac, kw, envSeed)
       IN /\ wrapper' = r.wrapper
          /\ env' = r.env
          /\ reward_spec' = r.reward_spec
          /\ input_spec' = r.input_spec
          /\ observation_spec' = r.observation_spec
          /\ ctorTrace' = r.calls
          /\ lastErr' = r.err
    /\ cls' = c
    /\ kwargs' = kw
    /\ lastCall' = "construct"
    /\ prevLifecycle' = Lifecycle
    /\ UNCHANGED <<moduleVars, _is_done, tensordict_out, tdAction>>

\* The values a caller may pass as env: None, another object, an instance that is
\* new or that the caller has reset already.
EnvArgs ==
    {NoEnv, [NoEnv EXCEPT !.type = "object"]}
    \cup {StarCraft2Env(s) : s \in Seeds}
    \cup {EnvReset(StarCraft2Env(s)) : s \in Seeds}

\* SC2Wrapper(env)
NewSC2Wrapper ==
    \E envArg \in EnvArgs :
        Construct("SC2Wrapper", "", SC2Wrapper_init(envArg), envArg.seed)

\* SC2Env(map_name, seed), map_name left out or the registry's first
NewSC2Env ==
    \E mapArg \in {<<>>, <<Head(smac_maps)>>} :
    \E seedArg \in {None} \cup {Some(s) : s \in Seeds} :
    \E drawn \in Seeds :
        LET i == SC2Env_init(mapArg, seedArg)
            envSeed == IF seedArg = None THEN drawn ELSE seedArg[1]
        IN /\ (seedArg # None => drawn = seedArg[1])
           /\ Construct("SC2Env", i.err, i.kw, envSeed)

\* ------------------------------------------------------------- operations
\* _reset's done taken over from the last record instead of zeroed.
reset_done_carried(td) == IF td = NoTensorDict THEN Zeros(batch_size) ELSE td.fields.done

\* The done flag of _reset: torch.zeros(self.batch_size, dtype=torch.bool).
reset_done(td) == Zeros(batch_size)

\* SC2Wrapper._reset
Reset ==
    /\ wrapper = "constructed"
    /\ LET e2 == EnvReset(env)
           obs_dict == read_obs(get_obs(e2))
           done == reset_done(tensordict_out)
       IN /\ env' = e2
          /\ _is_done' = done
          /\ tensordict_out' = TensorDict([observation |-> obs_dict.observation, done |-> done],
                                          batch_size)
    /\ lastCall' = "reset"
    /\ lastErr' = ""
    /\ prevLifecycle' = Lifecycle
    /\ UNCHANGED <<moduleVars, wrapper, cls, kwargs, specVars, ctorTrace, tdAction>>

\* SC2Wrapper._action_transform
_action_transform(action) == to_numpy(input_spec.action, action)

\* _step that leaves the action mask as it was.
StepOutcomeStaleMask(e, rspec, ispec, ospec, action_np, reward, terminated, alive) ==
    LET e2 == EnvStep(e, action_np, reward, terminated, alive)
        obs_dict == read_obs(get_obs(e2))
    IN [env |-> e2,
        tensordict_out |->
            TensorDict([observation |-> obs_dict.observation,
                        reward |-> to_tensor_float(reward, rspec.dtype),
                        done |-> to_tensor_bool(terminated)], batch_size),
        reward_spec |-> rspec, input_spec |-> ispec, observation_spec |-> ospec]

\* _step that reports done as False whatever the environment returned.
StepOutcomeNeverDone(e, rspec, ispec, ospec, action_np, reward, terminated, alive) ==
    LET e2 == EnvStep(e, action_np, reward, terminated, alive)
        obs_dict == read_obs(get_obs(e2))
    IN [env |-> e2,
        tensordict_out |->
            TensorDict([observation |-> obs_dict.observation,
                        reward |-> to_tensor_float(reward, rspec.dtype),
                        done |-> to_tensor_bool(FALSE)], batch_size),
        reward_spec |-> rspec, input_spec |-> _make_input_spec(e2), observation_spec |-> ospec]

\* _step that stores the new action spec as the observation spec.
StepOutcomeWrongSpec(e, rspec, ispec, ospec, action_np, reward, terminated, alive) ==
    LET e2 == EnvStep(e, action_np, reward, terminated, alive)
        obs_dict == read_obs(get_obs(e2))
    IN [env |-> e2,
        tensordict_out |->
            TensorDict([observation |-> obs_dict.observation,
                        reward |-> to_tensor_float(reward, rspec.dtype),
                        done |-> to_tensor_bool(terminated)], batch_size),
        reward_spec |-> rspec, input_spec |-> ispec, observation_spec |-> _make_input_spec(e2)]

\* SC2Wrapper._step once the environment has accepted the native action and answered
\* (reward, terminated): the record returned and the wrapper's specs afterwards.
StepOutcome(e, rspec, ispec, ospec, action_np, reward, terminated, alive) ==
    LET e2 == EnvStep(e, action_np, reward, terminated, alive)
        obs_dict == read_obs(get_obs(e2))
    IN [env |-> e2,
        tensordict_out |->
            TensorDict([observation |-> obs_dict.observation,
                        reward |-> to_tensor_float(reward, rspec.dtype),
                        done |-> to_tensor_bool(terminated)], batch_size),
        reward_spec |-> rspec, input_spec |-> _make_input_spec(e2), observation_spec |-> ospec]

Step ==
    /\ wrapper = "constructed"
    /\ \E action \in Rand(input_spec.action) :
        LET action_np == _action_transform(action)
        IN IF ~EnvAccepts(env, action_np)
           THEN /\ lastErr' = "EnvError"
                /\ UNCHANGED <<env, tensordict_out, specVars, tdAction>>
           ELSE \E o \in EnvOutcomes(env) :
                  LET r == StepOutcome(env, reward_spec, input_spec, observation_spec,
                                       action_np, o.reward, o.terminated, o.alive)
                  IN /\ env' = r.env
                     /\ tdAction' = action
                     /\ tensordict_out' = r.tensordict_out
                     /\ reward_spec' = r.reward_spec
                     /\ input_spec' = r.input_spec
                     /\ observation_spec' = r.observation_spec
                     /\ lastErr' = ""
    /\ lastCall' = "step"
    /\ prevLifecycle' = Lifecycle
    /\ UNCHANGED <<moduleVars, wrapper, cls, kwargs, _is_done, ctorTrace>>

\* _set_seed that hands the seed to the environment.
_set_seed_applied(e, seed) ==
    [err |-> "", env |-> IF seed = None THEN e ELSE [e EXCEPT !.seed = seed[1]]]

\* SC2Wrapper._set_seed: always raises; the environment is left as it is.
_set_seed(e, seed) == [err |-> "NotImplementedError", env |-> e]

\* SC2Wrapper.get_seed
get_seed == EnvSeed(env)

SetSeed ==
    /\ wrapper = "constructed"
    /\ \E seed \in {None} \cup {Some(s) : s \in Seeds} :
        LET r == _set_seed(env, seed)
        IN /\ env' = r.env
           /\ lastErr' = r.err
    /\ lastCall' = "set_seed"
    /\ prevLifecycle' = Lifecycle
    /\ UNCHANGED <<moduleVars, wrapper, cls, kwargs, specVars, _is_done, ctorTrace,
                   tensordict_out, tdAction>>

Next ==
    \/ ImportModule
    \/ NewSC2Wrapper
    \/ NewSC2Env
    \/ Reset
    \/ Step
    \/ SetSeed

Spec == Init /\ [][Next]_vars

\* ------------------------------------------------------------- properties
Constructed == wrapper = "constructed"

\* The mask the environment's currently available actions give.
AvailMask == BoolTensor(get_avail_actions(env))

\* The observation fields of a record are those the observation spec declares.
ObservationMatches(td) ==
    /\ DOMAIN observation_spec \subseteq DOMAIN td.fields
    /\ \A k \in DOMAIN observation_spec :
          /\ td.fields[k].shape = observation_spec[k].shape
          /\ td.fields[k].dtype = observation_spec[k].dtype

\* C1: the record a reset() returns holds exactly the observation fields of
\* observation_spec and a boolean done field of the wrapper's batch shape, all False,
\* and no reward, whatever the step before it returned.
C1_ResetRecord ==
    (lastCall = "reset") =>
        /\ lastErr = ""
        /\ DOMAIN tensordict_out.fields = DOMAIN observation_spec \cup {"done"}
        /\ ObservationMatches(tensordict_out)
        /\ tensordict_out.batch_size = batch_size
        /\ tensordict_out.fields.done.dtype = "bool"
        /\ tensordict_out.fields.done.shape = batch_size
        /\ DOMAIN tensordict_out.fields.done.data = 1 .. Numel(batch_size)
        /\ \A j \in DOMAIN tensordict_out.fields.done.data :
              tensordict_out.fields.done.data[j] = FALSE

\* A reset() issued after a step that returned done.
C1_Witness == lastCall = "reset" /\ prevLifecycle = "Done"

\* C2: once a step() has returned, the action spec's mask is the environment's
\* available-actions matrix as it is after that step.
C2_MaskAfterStep ==
    (lastCall = "step" /\ lastErr = "") => input_spec.action.mask = AvailMask

\* A step has returned after which an agent's available actions differ from those
\* the spec was built with at construction.
C2_Witness ==
    /\ lastCall = "step" /\ lastErr = ""
    /\ input_spec.action.mask # BoolTensor(get_avail_actions(EnvReset(env)))
    /\ input_spec.action.mask = AvailMask

\* C3: on a wrapper that has been reset, step() with an action sampled from the
\* current action spec returns a record of exactly the observation fields, the
\* environment's reward cast to the reward spec's dtype and its done flag as a
\* boolean, the environment having received the native form of the action.
C3_StepRecord ==
    (lastCall = "step" /\ _is_done # NoSpec) =>
        /\ lastErr = ""
        /\ DOMAIN tensordict_out.fields = DOMAIN observation_spec \cup {"reward", "done"}
        /\ ObservationMatches(tensordict_out)
        /\ tensordict_out.fields.reward.dtype = reward_spec.dtype
        /\ tensordict_out.fields.reward.data = <<Float32(env.last_ret[1])>>
        /\ tensordict_out.fields.done.dtype = "bool"
        /\ tensordict_out.fields.done.data = <<env.last_ret[2]>>
        /\ \A i \in Agents : tdAction[i][env.last_action[i + 1]] = 1

\* C4: a set_seed() always raises NotImplementedError and leaves the seed that
\* get_seed() reports as it was.
C4_SetSeedFails ==
    [][(lastCall' = "set_seed") =>
          (lastErr' = "NotImplementedError" /\ get_seed' = get_seed)]_vars

\* A set_seed() attempted after reset() and step() calls.
C4_Witness ==
    /\ lastCall = "set_seed" /\ lastErr = "NotImplementedError"
    /\ tensordict_out # NoTensorDict /\ "reward" \in DOMAIN tensordict_out.fields

\* C5: without the smac library the module loads with an empty available_envs, and
\* SC2Env(map_name) fails with the RuntimeError that carries the installation hint.
C5_MissingLibrary ==
    (~installed /\ moduleState # "unimported") =>
        /\ moduleState = "loaded"
        /\ available_envs = <<>>
        /\ (wrapper # "none" /\ cls = "SC2Env" /\ "map_name" \in kwargs.keys)
              => (wrapper = "failed" /\ lastErr = "RuntimeError")

\* The configuration lacks the required argument or gives it the wrong type.
BadConfig ==
    \/ cls = "SC2Wrapper" /\ ("env" \notin kwargs.keys \/ kwargs.env.type # "StarCraft2Env")
    \/ cls = "SC2Env" /\ "map_name" \notin kwargs.keys

\* C6: a construction whose required argument is absent or of the wrong type fails
\* with TypeError before the external environment is instantiated or reset.
C6_ConfigError ==
    (wrapper # "none" /\ BadConfig) =>
        /\ wrapper = "failed"
        /\ lastErr = "TypeError"
        /\ ctorTrace = <<>>
        /\ env = NoEnv

\* SC2Wrapper was given an object that is no StarCraft2Env.
C6_Witness == wrapper = "failed" /\ cls = "SC2Wrapper" /\ kwargs.env.type = "object"

\* C7 as stated: a step ends in Done exactly when the environment returned done,
\* Done is entered only by a step, no step is delegated from Done, and reset()
\* leads from Done to Ready.
C7_DoneTerminal ==
    /\ (lastCall = "step" /\ lastErr = "") =>
          Lifecycle = (IF env.last_ret[2] THEN "Done" ELSE "Ready")
    /\ (Lifecycle = "Done" /\ prevLifecycle # "Done") => lastCall = "step"
    /\ (lastCall = "step") => prevLifecycle # "Done"
    /\ (lastCall = "reset") => Lifecycle = "Ready"

\* C7 as amended: a step ends in Done exactly when the environment returned done,
\* Done is entered only by a step, and reset() leads from Done to Ready; a step
\* called in Done is delegated like any other.
C7_Lifecycle ==
    /\ (lastCall = "step" /\ lastErr = "") =>
          Lifecycle = (IF env.last_ret[2] THEN "Done" ELSE "Ready")
    /\ (Lifecycle = "Done" /\ prevLifecycle # "Done") => lastCall = "step"
    /\ (lastCall = "reset") => Lifecycle = "Ready"

\* A step was called in Done and the environment answered it.
C7_Witness ==
    lastCall = "step" /\ prevLifecycle = "Done" /\ lastErr = "" /\ env.last_ret # <<>>

\* C8: construction resets the external environment exactly once, before any of
\* the introspection queries the specs are derived from.
C8_ResetBeforeIntrospection ==
    LET resets == {j \in DOMAIN ctorTrace : ctorTrace[j] = "reset"}
        queries == {j \in DOMAIN ctorTrace :
                        ctorTrace[j] \in {"get_avail_actions", "get_env_info"}}
    IN /\ (Constructed \/ queries # {}) => Cardinality(resets) = 1
       /\ \A q \in queries : \A r \in resets : r < q
       /\ Constructed => (queries # {} /\ env.initialized)

\* A wrapper built from a map name: the instance was created, reset, then queried.
C8_Witness ==
    /\ Constructed /\ cls = "SC2Env"
    /\ ctorTrace = <<"StarCraft2Env", "reset", "get_avail_actions", "get_env_info">>

\* C9: after construction no call changes the observation spec or the reward spec,
\* and only step() changes the action spec.
C9_SpecsFrame ==
    [][Constructed =>
          /\ observation_spec' = observation_spec
          /\ reward_spec' = reward_spec
          /\ (lastCall' # "step" => input_spec' = input_spec)]_vars

\* A reset() that followed a step which had changed the action spec.
C9_Witness ==
    /\ lastCall = "reset" /\ prevLifecycle # "SpecsReady"
    /\ input_spec.action.mask # AvailMask
    /\ observation_spec = _make_observation_spec(env)
    /\ reward_spec = _make_reward_spec

\* C10: whenever the caller may issue step(), the action spec's mask is the
\* environment's currently available actions.
C10_MaskTracksEnv == Constructed => input_spec.action.mask = AvailMask

====
